---- MODULE Spec2Model ----
(***************************************************************************)
(* SystemInfoTool (nanobot/agent/tools/system.py): one call of execute,    *)
(* as a function of the selector the caller passes and of the outcome of   *)
(* every probe of the host the call makes.                                 *)
(*                                                                         *)
(* A text is a sequence of lines; "\n".join is concatenation of line       *)
(* sequences.  A line is a record: k is the literal label of the line, s   *)
(* an opaque string value, n a number shown with two decimals (in          *)
(* hundredths), pct a percentage shown with one decimal (in tenths) when   *)
(* hasPct, q a sequence of characters, tail the literal that closes it.   *)
(* An exception is a result with raised = TRUE and its message in msg.     *)
(***************************************************************************)
EXTENDS Integers, Sequences, FiniteSets, TLC

VARIABLES pc, info_type, env, result

vars == <<pc, info_type, env, result>>

\* ------------------------------------------------------------ bounds
\* Largest logical core count the host reports.
MaxCpus == 1
\* Largest size of memory, in units of MemUnitKb (DiskUnitMiB on Windows).
MaxMemUnits == 2
\* Largest size of a volume, in units of DiskUnitMiB.
MaxDiskUnits == 1
\* How far the utility's output may run past the truncation point.
MaxExtra == 1

\* --------------------------------------------------- program constants
\* result.stdout[:500]
VmStatCap == 500
\* The 1024 of 1024**2 and 1024**3.
Kibi == 1024
\* 1024**2: the kB of /proc/meminfo per GiB.
KbPerGiB == Kibi * Kibi
\* 1024**3 bytes per GiB, with byte counts held in MiB: every size below is a
\* whole number of MiB, and a count of bytes would not fit 32-bit integers.
MiBPerGiB == Kibi
\* One unit of size in /proc/meminfo, in kB (a quarter GiB).
MemUnitKb == KbPerGiB \div 4
\* One unit of size of a volume or of physical memory, in MiB (half a GiB).
DiskUnitMiB == MiBPerGiB \div 2

\* ------------------------------------------------------------ characters
LowerAlpha ==
    <<"a","b","c","d","e","f","g","h","i","j","k","l","m",
      "n","o","p","q","r","s","t","u","v","w","x","y","z">>

UpperAlpha ==
    <<"A","B","C","D","E","F","G","H","I","J","K","L","M",
      "N","O","P","Q","R","S","T","U","V","W","X","Y","Z">>

\* str.lower on one character.
lowerChar(c) ==
    IF \E i \in 1..26 : UpperAlpha[i] = c
    THEN LowerAlpha[CHOOSE i \in 1..26 : UpperAlpha[i] = c]
    ELSE c

\* str.upper on one character (used only to build the callers' inputs).
upperChar(c) ==
    IF \E i \in 1..26 : LowerAlpha[i] = c
    THEN UpperAlpha[CHOOSE i \in 1..26 : LowerAlpha[i] = c]
    ELSE c

\* A faulty lower() that leaves the string as it is.
lower_identity(cs) == cs

\* info_type.lower()

lower(cs) == [i \in 1..Len(cs) |-> lowerChar(cs[i])]

\* ------------------------------------------------------------ selectors
\* The values a caller can pass: a string, None, an integer, or nothing.
Str(cs) == [type |-> "str", chars |-> cs, val |-> 0]

None == [type |-> "none", chars |-> <<>>, val |-> 0]

Int_(v) == [type |-> "int", chars |-> <<>>, val |-> v]

Omitted == [type |-> "omitted", chars |-> <<>>, val |-> 0]

W_all == <<"a","l","l">>

W_os == <<"o","s">>

W_cpu == <<"c","p","u">>

W_memory == <<"m","e","m","o","r","y">>

W_disk == <<"d","i","s","k">>

W_bogus == <<"b","o","g","u","s">>

W_cpu_sp == <<"c","p","u"," ">>

ValidWords == {W_all, W_os, W_cpu, W_memory, W_disk}

upper(cs) == [i \in 1..Len(cs) |-> upperChar(cs[i])]

capitalize(cs) == [i \in 1..Len(cs) |-> IF i = 1 THEN upperChar(cs[i]) ELSE cs[i]]

CaseForms(w) == {w, upper(w), capitalize(w)}

StrSelectors ==
    {Str(cs) : cs \in UNION {CaseForms(w) : w \in ValidWords \cup {W_bogus, W_cpu_sp}}}
        \cup {Str(<<>>)}

Selectors == StrSelectors \cup {None, Omitted, Int_(0), Int_(123)}

\* Python truthiness of the selector.
Truthy(x) ==
    CASE x.type = "str" -> x.chars # <<>>
      [] x.type = "int" -> x.val # 0
      [] OTHER -> FALSE

\* ------------------------------------------------------------ text
Line(k) == [k |-> k, s |-> "", n |-> 0, hasPct |-> FALSE, pct |-> 0, q |-> <<>>, tail |-> ""]

LineS(k, s) == [Line(k) EXCEPT !.s = s]

LineN(k, n) == [Line(k) EXCEPT !.n = n]

LineNP(k, n, p) == [Line(k) EXCEPT !.n = n, !.hasPct = TRUE, !.pct = p]

LineP(k, p) == [Line(k) EXCEPT !.hasPct = TRUE, !.pct = p]

LineQ(k, q, tail) == [Line(k) EXCEPT !.q = q, !.tail = tail]

Blank == Line("")

Return(text, probes) == [raised |-> FALSE, text |-> text, msg |-> "", probes |-> probes]

Raise(msg, probes) == [raised |-> TRUE, text |-> <<>>, msg |-> msg, probes |-> probes]

\* round(num / den) to the nearest integer, ties to even (den > 0), the
\* rounding of the "{x:.2f}" and "{x:.1f}" formats.
RoundDiv(num, den) ==
    LET f == num \div den
        r == num - f * den
    IN  IF 2 * r < den THEN f
        ELSE IF 2 * r > den THEN f + 1
        ELSE IF f % 2 = 0 THEN f ELSE f + 1

\* "{x / per:.2f}" in hundredths.
Fmt2(x, per) == RoundDiv(x * 100, per)

\* "(used / total * 100) if total > 0 else 0" shown as "{percent:.1f}", in tenths.
Percent(used, total) == IF total > 0 THEN RoundDiv(used * 1000, total) ELSE 0

\* ------------------------------------------------------------ the host
\* platform.system() values: the three families the code tells apart, and one
\* it does not.
Families == {"Linux", "Darwin", "Windows", "FreeBSD"}

MemSizes == 0..MaxMemUnits

DiskSizes == 0..MaxDiskUnits

\* /proc/cpuinfo as a sequence of key : value lines.
CpuinfoFiles ==
    { <<>>,
      <<[key |-> "processor", val |-> "0"]>>,
      <<[key |-> "processor", val |-> "0"], [key |-> "model name", val |-> ""]>>,
      <<[key |-> "processor", val |-> "0"], [key |-> "model name", val |-> "cpu-x"],
        [key |-> "model name", val |-> "cpu-y"]>> }

\* What the CPU builder can meet: os.cpu_count() returning None (count 0) or a
\* count, or raising; platform.system() raising; the file or the utility failing.
CpuEnvs(family) ==
    { [cpu_count |-> "raise", count |-> 0, platform |-> "ok", open |-> "ok",
       cpuinfo |-> <<>>, sysctl |-> "ok", brand |-> ""] }
    \cup
    { [cpu_count |-> "ok", count |-> n, platform |-> "raise", open |-> "ok",
       cpuinfo |-> <<>>, sysctl |-> "ok", brand |-> ""] : n \in 0..MaxCpus }
    \cup
    IF family = "Linux" THEN
        { [cpu_count |-> "ok", count |-> n, platform |-> "ok", open |-> "raise",
           cpuinfo |-> <<>>, sysctl |-> "ok", brand |-> ""] : n \in 0..MaxCpus }
        \cup
        { [cpu_count |-> "ok", count |-> n, platform |-> "ok", open |-> "ok",
           cpuinfo |-> f, sysctl |-> "ok", brand |-> ""] :
             n \in 0..MaxCpus, f \in CpuinfoFiles }
    ELSE IF family = "Darwin" THEN
        { [cpu_count |-> "ok", count |-> n, platform |-> "ok", open |-> "ok",
           cpuinfo |-> <<>>, sysctl |-> s, brand |-> ""] :
             n \in 0..MaxCpus, s \in {"notfound", "timeout", "nonzero", "ok"} }
        \cup
        { [cpu_count |-> "ok", count |-> n, platform |-> "ok", open |-> "ok",
           cpuinfo |-> <<>>, sysctl |-> "ok", brand |-> "brand-x"] : n \in 0..MaxCpus }
    ELSE
        { [cpu_count |-> "ok", count |-> n, platform |-> "ok", open |-> "ok",
           cpuinfo |-> <<>>, sysctl |-> "ok", brand |-> ""] : n \in 0..MaxCpus }

\* The mappings the parse of /proc/meminfo can build: any of the three keys the
\* code reads may be missing, and MemAvailable may exceed MemTotal.
MeminfoMaps ==
    UNION { [ks -> MemSizes] : ks \in { {"MemTotal", "MemAvailable"}, {"MemAvailable"},
                                      {"MemTotal", "MemFree"}, {"MemTotal"}, {} } }

\* The lengths of the virtual-memory utility's output, around the cut.
OutLens == {0, 1} \cup (VmStatCap - 1 .. VmStatCap + MaxExtra)

NoMem ==
    [platform |-> "ok", api |-> "ok", total |-> 0, avail |-> 0, open |-> "ok",
     parse |-> "ok", meminfo |-> <<>>, vm_stat |-> "ok", outLen |-> 0]

\* What the memory builder can meet.  GlobalMemoryStatusEx never reports more
\* available than total physical memory.
MemEnvs(family) ==
    { [NoMem EXCEPT !.platform = "raise"] }
    \cup
    IF family = "Windows" THEN
        { [NoMem EXCEPT !.api = "raise"] }
        \cup UNION { { [NoMem EXCEPT !.total = t, !.avail = a] : a \in 0..t } : t \in MemSizes }
    ELSE IF family = "Linux" THEN
        { [NoMem EXCEPT !.open = "raise"], [NoMem EXCEPT !.parse = "raise"] }
        \cup { [NoMem EXCEPT !.meminfo = m] : m \in MeminfoMaps }
    ELSE
        { [NoMem EXCEPT !.vm_stat = s] : s \in {"notfound", "timeout", "nonzero"} }
        \cup { [NoMem EXCEPT !.outLen = n] : n \in OutLens }

\* shutil.disk_usage: used = total - (free blocks), free = blocks available to
\* the caller, so used <= total and free <= total - used.
DiskUsages ==
    { d \in [total : DiskSizes, used : DiskSizes, free : DiskSizes] :
        d.used <= d.total /\ d.free <= d.total - d.used }

\* The secondary volume, with every block not in use available.
DiskUsagesC == { d \in DiskUsages : d.free = d.total - d.used }

NoUsage == [total |-> 0, used |-> 0, free |-> 0]

NoDisk ==
    [getcwd |-> "ok", primary |-> "ok", usage |-> NoUsage, platform |-> "ok",
     secondary |-> "ok", usage_c |-> NoUsage]

\* What the disk builder can meet.
DiskEnvs(family) ==
    { [NoDisk EXCEPT !.getcwd = "raise"], [NoDisk EXCEPT !.primary = "raise"] }
    \cup { [NoDisk EXCEPT !.usage = d, !.platform = "raise"] : d \in DiskUsages }
    \cup
    IF family = "Windows" THEN
        { [NoDisk EXCEPT !.usage = d, !.secondary = "raise"] : d \in DiskUsages }
        \cup { [NoDisk EXCEPT !.usage = d, !.usage_c = c] : d \in DiskUsages, c \in DiskUsagesC }
    ELSE
        { [NoDisk EXCEPT !.usage = d] : d \in DiskUsages }

\* ------------------------------------------------------------ builders
\* _get_os_info: five platform identity calls and one literal, with no handler
\* of its own.
_get_os_info(e) ==
    IF e.os.platform = "raise"
    THEN Raise("platform identity call failed", {"platform"})
    ELSE Return(<< Line("=== OS Information ==="),
                   LineS("System:", e.family),
                   LineS("Release:", "release"),
                   LineS("Version:", "version"),
                   LineS("Machine:", "machine"),
                   LineS("Processor:", "processor") >>, {"platform"})

\* The for loop over /proc/cpuinfo: the value of the first "model name" line.
FirstModelName(f) ==
    IF \E i \in 1..Len(f) : f[i].key = "model name"
    THEN f[CHOOSE i \in 1..Len(f) :
              /\ f[i].key = "model name"
              /\ \A j \in 1..(i - 1) : f[j].key # "model name"].val
    ELSE ""

\* The inner try of _get_cpu_info: freq_info, "" after any failure.
cpuModelString(e) ==
    IF e.cpu.platform = "raise" THEN ""
    ELSE IF e.family = "Linux" THEN
        IF e.cpu.open = "raise" THEN "" ELSE FirstModelName(e.cpu.cpuinfo)
    ELSE IF e.family = "Darwin" THEN
        IF e.cpu.sysctl = "ok" THEN e.cpu.brand ELSE ""
    ELSE ""

\* The probes the inner try of _get_cpu_info attempts.
cpuModelProbes(e) ==
    {"platform"} \cup
    IF e.cpu.platform = "raise" THEN {}
    ELSE IF e.family = "Linux" THEN {"/proc/cpuinfo"}
    ELSE IF e.family = "Darwin" THEN {"sysctl"}
    ELSE {}

\* A faulty _get_cpu_info that reports a failed model probe as an error.
_get_cpu_info_loud(e) ==
    IF e.cpu.cpu_count = "raise"
    THEN Return(<< Line("=== CPU Information ==="), LineS("Error:", "cpu_count failed") >>,
                {"cpu_count"})
    ELSE LET freq_info == cpuModelString(e)
             count == IF e.cpu.count = 0
                      THEN LineS("CPU Count (logical):", "Unknown")
                      ELSE LineN("CPU Count (logical):", e.cpu.count)
         IN  Return(<< Line("=== CPU Information ==="), count >>
                      \o (IF freq_info # ""
                          THEN << LineS("CPU Model:", freq_info) >>
                          ELSE << LineS("Error:", "no CPU model") >>),
                    {"cpu_count"} \cup cpuModelProbes(e))

\* _get_cpu_info.  The second os.cpu_count() call of line 90 has the outcome of
\* the first, and its value is not used.
_get_cpu_info(e) ==
    IF e.cpu.cpu_count = "raise"
    THEN Return(<< Line("=== CPU Information ==="), LineS("Error:", "cpu_count failed") >>,
                {"cpu_count"})
    ELSE LET freq_info == cpuModelString(e)
             count == IF e.cpu.count = 0
                      THEN LineS("CPU Count (logical):", "Unknown")
                      ELSE LineN("CPU Count (logical):", e.cpu.count)
         IN  Return(<< Line("=== CPU Information ==="), count >>
                      \o (IF freq_info # "" THEN << LineS("CPU Model:", freq_info) >> ELSE << >>),
                    {"cpu_count"} \cup cpuModelProbes(e))

\* dict.get(key, default)
Get(d, key, default) == IF key \in DOMAIN d THEN d[key] ELSE default

\* The four lines of the Windows and /proc/meminfo paths.
MemoryLines(total, used, avail, per) ==
    << Line("=== Memory Information ==="),
       LineN("Total:", Fmt2(total, per)),
       LineN("Used:", Fmt2(used, per)),
       LineN("Available:", Fmt2(avail, per)),
       LineP("Usage:", Percent(used, total)) >>

\* The Windows path of _get_memory_info.
MemoryWindows(e) ==
    IF e.mem.api = "raise"
    THEN Return(<< Line("=== Memory Information ==="),
                   Line("Unable to retrieve memory info on Windows") >>,
                {"platform", "GlobalMemoryStatusEx"})
    ELSE LET total == e.mem.total * DiskUnitMiB
             avail == e.mem.avail * DiskUnitMiB
         IN  Return(MemoryLines(total, total - avail, avail, MiBPerGiB),
                    {"platform", "GlobalMemoryStatusEx"})

\* The /proc/meminfo path of _get_memory_info.
MemoryLinux(e) ==
    IF e.mem.open = "raise"
    THEN Return(<< Line("=== Memory Information ==="), LineS("Error:", "cannot open /proc/meminfo") >>,
                {"platform", "/proc/meminfo"})
    ELSE IF e.mem.parse = "raise"
    THEN Return(<< Line("=== Memory Information ==="), LineS("Error:", "invalid literal for int()") >>,
                {"platform", "/proc/meminfo"})
    ELSE LET total_kb == Get(e.mem.meminfo, "MemTotal", 0) * MemUnitKb
             avail_kb == Get(e.mem.meminfo, "MemAvailable",
                             Get(e.mem.meminfo, "MemFree", 0)) * MemUnitKb
         IN  Return(MemoryLines(total_kb, total_kb - avail_kb, avail_kb, KbPerGiB),
                    {"platform", "/proc/meminfo"})

\* The utility's output: characters told apart by their position.
Stdout(n) == [i \in 1..n |-> i]

Min(a, b) == IF a < b THEN a ELSE b

\* A faulty utility path that answers every failure of the utility alike.
MemoryUtility_quiet(e) ==
    IF e.mem.vm_stat # "ok"
    THEN Return(<< Line("=== Memory Information ==="), Line("Unable to retrieve memory info") >>,
                {"platform", "vm_stat"})
    ELSE Return(<< Line("=== Memory Information ==="),
                   LineQ("", SubSeq(Stdout(e.mem.outLen), 1, Min(VmStatCap, e.mem.outLen)), "") >>,
                {"platform", "vm_stat"})

\* The else path of _get_memory_info: every family but Windows and Linux.
MemoryUtility(e) ==
    IF e.mem.vm_stat = "notfound"
    THEN Return(<< Line("=== Memory Information ==="), LineS("Error:", "No such file or directory: 'vm_stat'") >>,
                {"platform", "vm_stat"})
    ELSE IF e.mem.vm_stat = "timeout"
    THEN Return(<< Line("=== Memory Information ==="), LineS("Error:", "Command 'vm_stat' timed out") >>,
                {"platform", "vm_stat"})
    ELSE IF e.mem.vm_stat = "nonzero"
    THEN Return(<< Line("=== Memory Information ==="), Line("Unable to retrieve memory info") >>,
                {"platform", "vm_stat"})
    ELSE Return(<< Line("=== Memory Information ==="),
                   LineQ("", SubSeq(Stdout(e.mem.outLen), 1, Min(VmStatCap, e.mem.outLen)), "") >>,
                {"platform", "vm_stat"})

_get_memory_info(e) ==
    IF e.mem.platform = "raise"
    THEN Return(<< Line("=== Memory Information ==="), LineS("Error:", "platform identity call failed") >>,
                {"platform"})
    ELSE IF e.family = "Windows" THEN MemoryWindows(e)
    ELSE IF e.family = "Linux" THEN MemoryLinux(e)
    ELSE MemoryUtility(e)

\* The Total / Used / Free lines of one volume.
DiskLines(u) ==
    << LineN("Total:", Fmt2(u.total * DiskUnitMiB, MiBPerGiB)),
       LineNP("Used:", Fmt2(u.used * DiskUnitMiB, MiBPerGiB),
              Percent(u.used * DiskUnitMiB, u.total * DiskUnitMiB)),
       LineN("Free:", Fmt2(u.free * DiskUnitMiB, MiBPerGiB)) >>

\* A faulty inner try that reports the failure of the secondary query.
SecondaryBlock_loud(e) ==
    IF e.disk.secondary = "raise" THEN << LineS("Error:", "disk_usage failed") >>
    ELSE << Blank, Line("C: Drive:") >> \o DiskLines(e.disk.usage_c)

\* The inner try of _get_disk_info: the block of the C: drive, nothing on failure.
SecondaryBlock(e) ==
    IF e.disk.secondary = "raise" THEN << >>
    ELSE << Blank, Line("C: Drive:") >> \o DiskLines(e.disk.usage_c)

_get_disk_info(e) ==
    IF e.disk.getcwd = "raise"
    THEN Return(<< Line("=== Disk Information ==="), LineS("Error:", "getcwd failed") >>,
                {"getcwd"})
    ELSE IF e.disk.primary = "raise"
    THEN Return(<< Line("=== Disk Information ==="), LineS("Error:", "disk_usage failed") >>,
                {"getcwd", "disk_usage(cwd)"})
    ELSE IF e.disk.platform = "raise"
    THEN Return(<< Line("=== Disk Information ==="), LineS("Error:", "platform identity call failed") >>,
                {"getcwd", "disk_usage(cwd)", "platform"})
    ELSE LET parts == << Line("=== Disk Information ==="), LineS("Current directory:", "cwd") >>
                         \o DiskLines(e.disk.usage)
         IN  IF e.family = "Windows"
             THEN Return(parts \o SecondaryBlock(e),
                         {"getcwd", "disk_usage(cwd)", "platform", "disk_usage(C:)"})
             ELSE Return(parts, {"getcwd", "disk_usage(cwd)", "platform"})

\* ------------------------------------------------------------ dispatcher
\* What a call hands back: a builder's result and the builders entered, in order.
Out(r, invoked) ==
    [raised |-> r.raised, text |-> r.text, msg |-> r.msg, probes |-> r.probes,
     invoked |-> invoked]

\* The list literal of _get_all_info evaluates its four calls in order and stops
\* at the first that raises; "\n".join(parts) puts one line break between parts.
_get_all_info(e) ==
    LET o == _get_os_info(e) IN
    IF o.raised THEN Out(o, <<"os">>) ELSE
    LET c == _get_cpu_info(e) IN
    IF c.raised THEN Out(Raise(c.msg, o.probes \cup c.probes), <<"os", "cpu">>) ELSE
    LET m == _get_memory_info(e) IN
    IF m.raised THEN Out(Raise(m.msg, o.probes \cup c.probes \cup m.probes),
                         <<"os", "cpu", "memory">>) ELSE
    LET d == _get_disk_info(e) IN
    IF d.raised THEN Out(Raise(d.msg, o.probes \cup c.probes \cup m.probes \cup d.probes),
                         <<"os", "cpu", "memory", "disk">>) ELSE
    Out(Return(<< Line("=== System Information ==="), Blank >>
                 \o o.text \o << Blank >> \o c.text \o << Blank >> \o m.text
                 \o << Blank >> \o d.text,
               o.probes \cup c.probes \cup m.probes \cup d.probes),
        <<"os", "cpu", "memory", "disk">>)

\* A faulty chain whose last branch falls back to the whole report.
Dispatch_fallback(name, e) ==
    IF name = W_os THEN Out(_get_os_info(e), <<"os">>)
    ELSE IF name = W_cpu THEN Out(_get_cpu_info(e), <<"cpu">>)
    ELSE IF name = W_memory THEN Out(_get_memory_info(e), <<"memory">>)
    ELSE IF name = W_disk THEN Out(_get_disk_info(e), <<"disk">>)
    ELSE _get_all_info(e)

\* The if / elif chain of execute on the normalised selector.
Dispatch(name, e) ==
    IF name = W_all THEN _get_all_info(e)
    ELSE IF name = W_os THEN Out(_get_os_info(e), <<"os">>)
    ELSE IF name = W_cpu THEN Out(_get_cpu_info(e), <<"cpu">>)
    ELSE IF name = W_memory THEN Out(_get_memory_info(e), <<"memory">>)
    ELSE IF name = W_disk THEN Out(_get_disk_info(e), <<"disk">>)
    ELSE Out(Return(<< LineQ("Error: Unknown info_type", name,
                             "Use: all, os, cpu, memory, or disk") >>, {}), << >>)

\* The parameter as bound by the signature: "all" when the caller passes nothing.
Bind(a) == IF a.type = "omitted" THEN Str(W_all) ELSE a

\* The body of the try of execute: info_type.lower() if info_type else "all",
\* then the dispatch.  A truthy value that is no string has no lower().
Body(a, e) ==
    LET x == Bind(a) IN
    IF ~Truthy(x) THEN Dispatch(W_all, e)
    ELSE IF x.type # "str"
         THEN Out(Raise("'int' object has no attribute 'lower'", {}), << >>)
         ELSE Dispatch(lower(x.chars), e)

\* except Exception as e: return f"Error getting system info: {str(e)}"
Guard(r) ==
    IF r.raised
    THEN [r EXCEPT !.raised = FALSE, !.msg = "",
                   !.text = << LineS("Error getting system info:", r.msg) >>]
    ELSE r

\* A faulty execute without its handler.
execute_unguarded(a, e) == Body(a, e)

execute(a, e) == Guard(Body(a, e))

\* ------------------------------------------------------------ the call
Builders == <<"os", "cpu", "memory", "disk">>

\* The builders a selector reaches.
Targets(a) ==
    LET x == Bind(a) IN
    IF ~Truthy(x) THEN {"os", "cpu", "memory", "disk"}
    ELSE IF x.type # "str" THEN {}
    ELSE IF lower(x.chars) = W_all THEN {"os", "cpu", "memory", "disk"}
    ELSE { b \in {"os", "cpu", "memory", "disk"} :
             \/ b = "os" /\ lower(x.chars) = W_os
             \/ b = "cpu" /\ lower(x.chars) = W_cpu
             \/ b = "memory" /\ lower(x.chars) = W_memory
             \/ b = "disk" /\ lower(x.chars) = W_disk }

NoCpu ==
    [cpu_count |-> "ok", count |-> 0, platform |-> "ok", open |-> "ok",
     cpuinfo |-> <<>>, sysctl |-> "ok", brand |-> ""]

\* The hosts a call can run on.  The probes of a builder the call does not
\* reach (it is not selected, or an earlier builder raised) are not made, and
\* are left at one fixed outcome.
Envs(a) ==
    UNION { [ family : {fam},
              os     : {[platform |-> "ok"]},
              cpu    : IF "cpu" \in Targets(a) THEN CpuEnvs(fam) ELSE {NoCpu},
              mem    : IF "memory" \in Targets(a) THEN MemEnvs(fam) ELSE {NoMem},
              disk   : IF "disk" \in Targets(a) THEN DiskEnvs(fam) ELSE {NoDisk} ]
            \cup
            (IF "os" \in Targets(a)
             THEN {[family |-> fam, os |-> [platform |-> "raise"],
                    cpu |-> NoCpu, mem |-> NoMem, disk |-> NoDisk]}
             ELSE {})
            : fam \in Families }

NoResult == [raised |-> FALSE, text |-> << >>, msg |-> "", probes |-> {}, invoked |-> << >>]

Init ==
    /\ pc = "call"
    /\ info_type \in Selectors
    /\ env \in Envs(info_type)
    /\ result = NoResult

\* await tool.execute(info_type)
Execute ==
    /\ pc = "call"
    /\ result' = execute(info_type, env)
    /\ pc' = "done"
    /\ UNCHANGED <<info_type, env>>

Next == Execute

Spec == Init /\ [][Next]_vars

\* ------------------------------------------------------------ properties
Done == pc = "done"

Range(s) == { s[i] : i \in 1..Len(s) }

HasLine(text, k) == \E i \in 1..Len(text) : text[i].k = k

\* The index of the first line labelled k.
Pos(text, k) ==
    CHOOSE i \in 1..Len(text) : text[i].k = k /\ \A j \in 1..(i - 1) : text[j].k # k

\* Whether sub occurs in text as consecutive lines.
Contains(text, sub) ==
    \E i \in 0..(Len(text) - Len(sub)) :
        \A j \in 1..Len(sub) : text[i + j] = sub[j]

\* The lines from the first line labelled k up to the next empty line.
Section(text, k) ==
    IF ~HasLine(text, k) THEN << >>
    ELSE LET i == Pos(text, k)
             stops == { j \in (i + 1)..Len(text) : text[j].k = "" }
             last == IF stops = {} THEN Len(text)
                     ELSE (CHOOSE j \in stops : \A x \in stops : j <= x) - 1
         IN  SubSeq(text, i, last)

Banner(b) ==
    CASE b = "os" -> "=== OS Information ==="
      [] b = "cpu" -> "=== CPU Information ==="
      [] b = "memory" -> "=== Memory Information ==="
      [] b = "disk" -> "=== Disk Information ==="

Word(b) ==
    CASE b = "os" -> W_os
      [] b = "cpu" -> W_cpu
      [] b = "memory" -> W_memory
      [] b = "disk" -> W_disk

SectionOf(b, e) ==
    CASE b = "os" -> _get_os_info(e)
      [] b = "cpu" -> _get_cpu_info(e)
      [] b = "memory" -> _get_memory_info(e)
      [] b = "disk" -> _get_disk_info(e)

\* Two characters that are the same letter in either case, or the same character.
SameLetter(c, d) ==
    c = d \/ \E i \in 1..26 : {c, d} = {LowerAlpha[i], UpperAlpha[i]}

DiffersOnlyInCase(a, b) ==
    Len(a) = Len(b) /\ \A i \in 1..Len(a) : SameLetter(a[i], b[i])

\* a with every upper-case letter replaced by its lower-case letter is b.
IsLowerCaseOf(b, a) ==
    /\ DiffersOnlyInCase(a, b)
    /\ \A i \in 1..Len(b) : \A j \in 1..26 : b[i] # UpperAlpha[j]

OutsideClosedSet(cs) == \A w \in ValidWords : ~DiffersOnlyInCase(cs, w)

\* C1: execute never raises to its caller: whatever the selector (valid,
\* invalid, empty, absent, not a string) and whatever the probes do, the call
\* ends by returning one string.
C1_NeverRaises ==
    Done => /\ ~result.raised
            /\ result.msg = ""
            /\ Len(result.text) >= 1

\* A call with a selector that is not a string, answered with an error string.
C1_Witness ==
    /\ Done
    /\ info_type = Int_(123)
    /\ ~result.raised
    /\ result.text[1].k = "Error getting system info:"

\* C2: for each selector os, cpu, memory, disk, execute returns exactly the text
\* of that one builder, enters no other builder, and the text contains the
\* section's banner whatever the probes do.
C2_SingleSectionBanner ==
    \A b \in Range(Builders) :
        (Done /\ info_type = Str(Word(b))) =>
            /\ ~result.raised
            /\ result.invoked = <<b>>
            /\ result.text = SectionOf(b, env).text
            /\ HasLine(result.text, Banner(b))

\* C3: for selector all, the text is the top-level banner and then the four
\* section texts in the order OS, CPU, Memory, Disk, one empty line between
\* consecutive items, each section text the one the single-category call
\* returns, and each section banner after the one before it.
C3_AllLayout ==
    (Done /\ info_type = Str(W_all)) =>
        LET T(b) == execute(Str(Word(b)), env).text
            at(b) == Pos(result.text, Banner(b))
        IN  /\ result.text = << Line("=== System Information ==="), Blank >>
                               \o T("os") \o << Blank >> \o T("cpu") \o << Blank >>
                               \o T("memory") \o << Blank >> \o T("disk")
            /\ \A b \in Range(Builders) : HasLine(result.text, Banner(b))
            /\ at("os") < at("cpu") /\ at("cpu") < at("memory") /\ at("memory") < at("disk")

\* C4 as claimed: every string selector outside the closed set after case
\* normalisation gets one error string that names the value the caller passed
\* and lists the five options, and no builder is entered.
C4_UnknownNamesPassedValue ==
    (Done /\ info_type.type = "str" /\ OutsideClosedSet(info_type.chars)) =>
        /\ ~result.raised
        /\ result.invoked = << >>
        /\ Len(result.text) = 1
        /\ result.text[1].k = "Error: Unknown info_type"
        /\ result.text[1].tail = "Use: all, os, cpu, memory, or disk"
        /\ result.text[1].q = info_type.chars

\* C4 as amended: every non-empty string selector outside the closed set after
\* case normalisation gets one error string that names the lower-cased form of
\* the value and lists the five options; no builder is entered and no probe is
\* made.
C4_UnknownNamesLoweredValue ==
    (Done /\ info_type.type = "str" /\ info_type.chars # << >>
          /\ OutsideClosedSet(info_type.chars)) =>
        /\ ~result.raised
        /\ result.invoked = << >>
        /\ result.probes = {}
        /\ Len(result.text) = 1
        /\ result.text[1].k = "Error: Unknown info_type"
        /\ result.text[1].tail = "Use: all, os, cpu, memory, or disk"
        /\ IsLowerCaseOf(result.text[1].q, info_type.chars)

\* An upper-case unknown selector, answered with its lower-case form.
C4_Witness ==
    /\ Done
    /\ info_type = Str(upper(W_bogus))
    /\ result.text[1].k = "Error: Unknown info_type"
    /\ result.text[1].q = W_bogus

\* C5: dispatch is case-insensitive and defaults to all: selectors that differ
\* only in letter case reach the same builders, and a call with the selector
\* omitted or None is dispatched exactly as all.
C5_CaseInsensitiveDefaultAll ==
    Done =>
        /\ info_type.type = "str" =>
              \A s \in StrSelectors :
                  DiffersOnlyInCase(info_type.chars, s.chars) =>
                      LET r == execute(s, env)
                      IN  r.invoked = result.invoked /\ r.probes = result.probes
        /\ info_type.type \in {"none", "omitted"} =>
              /\ result = execute(Str(W_all), env)
              /\ Range(result.invoked) \subseteq Range(Builders)
              /\ result.invoked # << >>

\* An upper-case selector that reached the CPU builder.
C5_Witness ==
    /\ Done
    /\ info_type = Str(upper(W_cpu))
    /\ result.invoked = <<"cpu">>

\* The faults that reach the boundary of a section.
SectionFault(b, e) ==
    CASE b = "os" -> e.os.platform = "raise"
      [] b = "cpu" -> e.cpu.cpu_count = "raise"
      [] b = "memory" ->
            \/ e.mem.platform = "raise"
            \/ e.family = "Windows" /\ e.mem.api = "raise"
            \/ e.family = "Linux" /\ (e.mem.open = "raise" \/ e.mem.parse = "raise")
            \/ e.family \notin {"Windows", "Linux"} /\ e.mem.vm_stat \in {"notfound", "timeout"}
      [] b = "disk" ->
            \/ e.disk.getcwd = "raise"
            \/ e.disk.primary = "raise"
            \/ e.disk.platform = "raise"

\* C6: failures never cross a section boundary: in a report for all, a fault
\* inside any one of the four builders becomes an error line of that section
\* only; the result still has the top-level banner and the complete text of
\* the other sections, and is never one error string instead of the report.
C6_FaultStaysInSection ==
    \A b \in Range(Builders) :
        (Done /\ Targets(info_type) = Range(Builders) /\ SectionFault(b, env)) =>
            /\ ~result.raised
            /\ result.text[1].k = "=== System Information ==="
            /\ HasLine(result.text, Banner(b))
            /\ result.text[Pos(result.text, Banner(b)) + 1].k
                 \in {"Error:", "Unable to retrieve memory info on Windows"}
            /\ \A o \in Range(Builders) \ {b} :
                   ~SectionFault(o, env) => Contains(result.text, SectionOf(o, env).text)

\* The percentage lines of the disk builder, in order: the working directory's
\* volume, then the secondary volume.
IsDiskPct(l) == l.k = "Used:" /\ l.hasPct

\* C7: the usage percentage of the memory builder (Windows and /proc/meminfo
\* paths) and of the disk builder is 0 whenever total = 0 and lies in [0,100]
\* whenever total > 0, for every non-negative total / available / free the
\* source can supply, a mapping with MemTotal missing or smaller than
\* MemAvailable included.
C7_PercentInRange ==
    Done =>
        LET memTotal == IF env.family = "Windows" THEN env.mem.total
                        ELSE Get(env.mem.meminfo, "MemTotal", 0)
            diskPct == SelectSeq(result.text, IsDiskPct)
        IN  /\ \A i \in 1..Len(result.text) :
                  result.text[i].hasPct =>
                      result.text[i].pct >= 0 /\ result.text[i].pct <= 1000
            /\ \A i \in 1..Len(result.text) :
                  (result.text[i].k = "Usage:" /\ memTotal = 0) => result.text[i].pct = 0
            /\ (Len(diskPct) >= 1 /\ env.disk.usage.total = 0) => diskPct[1].pct = 0
            /\ (Len(diskPct) >= 2 /\ env.disk.usage_c.total = 0) => diskPct[2].pct = 0

\* The CPU-model probe is unavailable, or fails.
ModelProbeFails(e) ==
    \/ e.family = "Linux" /\ e.cpu.open = "raise"
    \/ e.family = "Linux" /\ \A i \in 1..Len(e.cpu.cpuinfo) :
                                e.cpu.cpuinfo[i].key # "model name"
    \/ e.family = "Darwin" /\ e.cpu.sysctl \in {"notfound", "timeout", "nonzero"}
    \/ e.family \notin {"Linux", "Darwin"}

CpuSectionIsCountOnly ==
    LET s == Section(result.text, Banner("cpu"))
    IN  /\ Len(s) = 2
        /\ s[1].k = "=== CPU Information ==="
        /\ s[2].k = "CPU Count (logical):"
        /\ ~HasLine(s, "CPU Model:")
        /\ ~HasLine(s, "Error:")

\* C8 as claimed: if the CPU-model probe is unavailable or fails in any way,
\* the CPU section is the banner and the count line, with no model line and no
\* error line.
C8_ModelProbeFailureSilent ==
    (Done /\ "cpu" \in Range(result.invoked) /\ ModelProbeFails(env)) =>
        CpuSectionIsCountOnly

\* C8 as amended: the same, provided os.cpu_count() itself returns; when it
\* raises, the section is the banner and an error line.
C8_ModelProbeFailureSilentWhenCountReturns ==
    (Done /\ "cpu" \in Range(result.invoked)) =>
        /\ (ModelProbeFails(env) /\ env.cpu.cpu_count = "ok") => CpuSectionIsCountOnly
        /\ env.cpu.cpu_count = "raise" =>
              LET s == Section(result.text, Banner("cpu"))
              IN  Len(s) = 2 /\ s[2].k = "Error:"

\* The brand-string utility timed out, and the section has the count line only.
C8_Witness ==
    /\ Done
    /\ info_type = Str(W_cpu)
    /\ env.family = "Darwin"
    /\ env.cpu.sysctl = "timeout"
    /\ env.cpu.cpu_count = "ok"
    /\ Len(result.text) = 2
    /\ result.text[2].k = "CPU Count (logical):"

\* The line that follows the memory banner.
AfterMemoryBanner == result.text[Pos(result.text, Banner("memory")) + 1]

\* The first VmStatCap characters of the utility's output, or all of it.
IsCutOutput(q, n) ==
    /\ Len(q) <= VmStatCap
    /\ Len(q) = Min(VmStatCap, n)
    /\ \A i \in 1..Len(q) : q[i] = Stdout(n)[i]

\* C9 as claimed: on the utility path of the memory builder, every failure of
\* the utility (non-zero exit, not found, timeout) gives the banner and an
\* "unable to retrieve" message, and a successful run gives the banner and at
\* most the first 500 characters of the raw output.
C9_UtilityFailureUnable ==
    (Done /\ "vm_stat" \in result.probes) =>
        /\ HasLine(result.text, Banner("memory"))
        /\ env.mem.vm_stat # "ok" =>
              AfterMemoryBanner = Line("Unable to retrieve memory info")
        /\ env.mem.vm_stat = "ok" =>
              AfterMemoryBanner.k = "" /\ IsCutOutput(AfterMemoryBanner.q, env.mem.outLen)

\* C9 as amended: a non-zero exit gives the banner and the "unable to
\* retrieve" message; a missing utility or a timeout gives the banner and an
\* "Error:" line; a successful run gives the banner and at most the first 500
\* characters of the raw output.
C9_UtilityFailureByKind ==
    (Done /\ "vm_stat" \in result.probes) =>
        /\ HasLine(result.text, Banner("memory"))
        /\ env.mem.vm_stat = "nonzero" =>
              AfterMemoryBanner = Line("Unable to retrieve memory info")
        /\ env.mem.vm_stat \in {"notfound", "timeout"} =>
              AfterMemoryBanner.k = "Error:" /\ AfterMemoryBanner.s # ""
        /\ env.mem.vm_stat = "ok" =>
              AfterMemoryBanner.k = "" /\ IsCutOutput(AfterMemoryBanner.q, env.mem.outLen)

\* The utility timed out on the utility path.
C9_Witness ==
    /\ Done
    /\ info_type = Str(W_memory)
    /\ env.family = "Darwin"
    /\ env.mem.vm_stat = "timeout"
    /\ "vm_stat" \in result.probes
    /\ result.text[2].k = "Error:"

PrimaryOk(e) == e.disk.getcwd = "ok" /\ e.disk.primary = "ok"

\* The lines from the disk banner to the end of the text.
DiskSection ==
    IF HasLine(result.text, Banner("disk"))
    THEN SubSeq(result.text, Pos(result.text, Banner("disk")), Len(result.text))
    ELSE << >>

DiskBodyShown(s) ==
    /\ HasLine(s, "Current directory:")
    /\ HasLine(s, "Total:") /\ HasLine(s, "Used:") /\ HasLine(s, "Free:")

DiskErrorOnly(s) ==
    /\ Len(s) = 2
    /\ s[1].k = "=== Disk Information ==="
    /\ s[2].k = "Error:"

\* C10 as claimed: the disk section follows from the primary query alone: when
\* it succeeds the text has the path and the Total, Used and Free lines whether
\* or not the secondary query succeeds (a failure of it adds and removes
\* nothing, and it is never attempted off Windows); when it fails the text is
\* the banner and a single error line.
C10_DiskByPrimaryAlone ==
    (Done /\ "disk" \in Range(result.invoked)) =>
        LET s == DiskSection
        IN  /\ PrimaryOk(env) => DiskBodyShown(s)
            /\ (PrimaryOk(env) /\ env.family = "Windows" /\ env.disk.secondary = "raise") =>
                  Len(s) = 5
            /\ env.family # "Windows" => "disk_usage(C:)" \notin result.probes
            /\ ~PrimaryOk(env) => DiskErrorOnly(s)

\* C10 as amended: the same when the platform-family call that follows the
\* primary query returns; when that call raises, the text is the banner and a
\* single error line, although the primary query succeeded.
C10_DiskByPrimaryAndFamily ==
    (Done /\ "disk" \in Range(result.invoked)) =>
        LET s == DiskSection
        IN  /\ (PrimaryOk(env) /\ env.disk.platform = "ok") => DiskBodyShown(s)
            /\ (PrimaryOk(env) /\ env.disk.platform = "ok" /\ env.family = "Windows"
                  /\ env.disk.secondary = "raise") => Len(s) = 5
            /\ env.family # "Windows" => "disk_usage(C:)" \notin result.probes
            /\ (~PrimaryOk(env) \/ env.disk.platform = "raise") => DiskErrorOnly(s)

\* On Windows the secondary query failed and the primary block is all there is.
C10_Witness ==
    /\ Done
    /\ info_type = Str(W_disk)
    /\ env.family = "Windows"
    /\ PrimaryOk(env) /\ env.disk.platform = "ok"
    /\ env.disk.secondary = "raise"
    /\ "disk_usage(C:)" \in result.probes
    /\ Len(result.text) = 5
    /\ HasLine(result.text, "Total:")

====
